---- MODULE Spec2Model ----
(***************************************************************************)
(* Feature resolution and composition of auro-core.                        *)
(*                                                                         *)
(* Host classes form a chain below AuroCore.  Each class may declare the   *)
(* static getters `provides` (features it offers) and `features`           *)
(* (overrides of offered features).  FeatureManager walks the prototype    *)
(* chain of a class, merges the declarations, publishes the properties of  *)
(* the enabled features (prepareFeatures, called by AuroCore.register)     *)
(* and builds one module instance per enabled feature for each host        *)
(* (_initializeFeatures, called by the FeatureManager constructor).  The   *)
(* lifecycle handlers of AuroCore dispatch each event to the hooks of the  *)
(* module instances of the host (processLifecycle).                        *)
(*                                                                         *)
(* Representation.                                                         *)
(*   - A config object is a function from key paths to scalar values:      *)
(*     {a: 1, n: {k: 2}} is (<<"a">> :> 1 @@ <<"n","k">> :> 2).            *)
(*   - A property descriptor is a string; the string "disable" is the      *)
(*     marker of the source.                                               *)
(*   - An override entry of `features` is a record; the string 'disable'   *)
(*     of the source is the record with disabled = TRUE.                   *)
(*   - A static getter that a class does not declare is inherited from     *)
(*     the nearest ancestor that declares it, as in JavaScript.            *)
(***************************************************************************)
EXTENDS Integers, Sequences, FiniteSets, TLC

VARIABLES
    provides,             \* class -> its own `static get provides()`
    features,             \* class -> its own `static get features()`
    featuresInitialized,  \* classes owning `_featuresInitialized = true`
    featureProperties,    \* class -> its own `_featureProperties` object
    registered,           \* classes passed to customElements.define
    hosts,                \* constructed host elements, oldest first
    ownProperties,        \* class -> its own `static get properties()`
    throwing,             \* feature classes whose constructor throws
    aborted,              \* host constructions that ended in an exception
    prepareCalls,         \* class -> calls of prepareFeatures made on it
    calls,                \* what the last lifecycle handler call did
    fields,               \* per host: the fields of the element
    internalValues,       \* per host: `_internalValues` of each instance
    writes,               \* property writes made so far
    resolutions           \* class -> what its last resolution returned

vars == <<provides, features, featuresInitialized, featureProperties,
          registered, hosts, ownProperties, throwing, aborted,
          prepareCalls, calls, fields, internalValues, writes, resolutions>>

\* Number of host elements constructed, or attempted, in one run.
MaxHosts == 1

\* Number of calls of prepareFeatures on one class in one run.
MaxPrepareCalls == 2

\* Number of property writes, by modules and from outside, in one run.
MaxWrites == 2

----------------------------------------------------------------------------
\* The class hierarchy: LitElement <- AuroCore <- A <- B <- C.

Classes == {"A", "B", "C"}

ParentOf == [c \in Classes \cup {"AuroCore"} |->
               CASE c = "AuroCore" -> "LitElement"
                 [] c = "A" -> "AuroCore"
                 [] c = "B" -> "A"
                 [] c = "C" -> "B"]

\* Position of a class below AuroCore; it tags the values a class declares.
Level == [c \in Classes |-> CASE c = "A" -> 1 [] c = "B" -> 2 [] c = "C" -> 3]

FeatureNames == {"layout", "focus"}

FeatureClasses == {"LayoutFeature", "FocusFeature"}

\* static get properties() of the feature modules; the descriptor a module
\* declares for a property is represented by the name of the module.
\* RootLayoutFeature is the LayoutFeature of the root directory,
\* LifecycleLoggerFeature declares no properties.  SeedFeature stands for a
\* module whose instances expose a `properties` map as well.
ModuleProperties(FeatureClass) ==
    CASE FeatureClass = "LayoutFeature" ->
             [p \in {"layout", "shape", "size", "onDark", "layoutClasses"}
                 |-> "LayoutFeature"]
      [] FeatureClass = "RootLayoutFeature" ->
             [p \in {"layout", "shape", "size", "onDark"}
                 |-> "RootLayoutFeature"]
      [] FeatureClass = "LifecycleLoggerFeature" -> [p \in {} |-> ""]
      [] FeatureClass = "SeedFeature" ->
             [p \in {"seeded", "plain"} |-> "SeedFeature"]
      [] OTHER -> [p \in {"hasFocus"} |-> "FocusFeature"]

\* The lifecycle methods an instance of a feature module responds to:
\* AuroFeature defines firstUpdated and updated for every module.
ModuleMethods(FeatureClass) ==
    IF FeatureClass = "LifecycleLoggerFeature"
    THEN {"connectedCallback", "disconnectedCallback", "firstUpdated",
          "updated"}
    ELSE {"firstUpdated", "updated"}

\* The classes visited by `while (current && current.name !== 'LitElement')`,
\* most derived first.
RECURSIVE Chain(_)
Chain(c) ==
    IF c = "LitElement" THEN <<>> ELSE <<c>> \o Chain(ParentOf[c])

\* Property lookup of a static member through the prototype chain: the
\* nearest class, starting at c, that owns the member.
RECURSIVE Owner(_, _)
Owner(owners, c) ==
    IF c = "LitElement" \/ c \in owners THEN c ELSE Owner(owners, ParentOf[c])

\* current.provides and current.features
ProvidesOf(c) == provides[Owner(DOMAIN provides, c)]
FeaturesOf(c) == features[Owner(DOMAIN features, c)]

----------------------------------------------------------------------------
\* lodash.merge on config objects.

IsPrefix(p, q) == Len(p) <= Len(q) /\ SubSeq(q, 1, Len(p)) = p

Conflicts(p, q) == IsPrefix(p, q) \/ IsPrefix(q, p)

\* merge({}, object, source): the keys of source are assigned recursively;
\* a scalar replaces whatever the object holds at that key, an object
\* replaces a scalar, and two objects are merged key by key.
merge(object, source) ==
    LET kept == {p \in DOMAIN object :
                    \A q \in DOMAIN source : ~Conflicts(p, q)}
    IN [p \in kept \cup DOMAIN source |->
           IF p \in DOMAIN source THEN source[p] ELSE object[p]]

EmptyObject == [p \in {} |-> 0]

----------------------------------------------------------------------------
\* FeatureManager.getInheritedProvides

HasName(entries, name) == \E i \in 1..Len(entries) : entries[i].name = name

\* Variant: the assignment without its guard, so an ancestor's definition
\* replaces the one already collected.
addProvideOverwrite(acc, definition) ==
    IF HasName(acc, definition.name)
    THEN [i \in 1..Len(acc) |->
             IF acc[i].name = definition.name THEN definition ELSE acc[i]]
    ELSE Append(acc, definition)

\* if (!features[name]) features[name] = definition;
addProvide(acc, definition) ==
    IF HasName(acc, definition.name) THEN acc ELSE Append(acc, definition)

RECURSIVE addProvides(_, _)
addProvides(acc, decl) ==
    IF decl = <<>> THEN acc
    ELSE addProvides(addProvide(acc, Head(decl)), Tail(decl))

RECURSIVE walkProvides(_, _)
walkProvides(acc, chain) ==
    IF chain = <<>> THEN acc
    ELSE walkProvides(addProvides(acc, ProvidesOf(Head(chain))), Tail(chain))

\* The merged definitions, in insertion order of the result object.
getInheritedProvides(constructor) == walkProvides(<<>>, Chain(constructor))

----------------------------------------------------------------------------
\* FeatureManager.getInheritedConfigs

Disable == [disabled |-> TRUE, config |-> EmptyObject,
            properties |-> [p \in {} |-> ""]]

\* The loop over nextProps: 'disable' deletes the key, a descriptor sets it.
mergeProps(prevProps, nextProps) ==
    LET deleted == {p \in DOMAIN nextProps : nextProps[p] = "disable"}
    IN [p \in (DOMAIN prevProps \cup DOMAIN nextProps) \ deleted |->
           IF p \in DOMAIN nextProps THEN nextProps[p] ELSE prevProps[p]]

\* Variant: the merge branch without `configs[name] !== 'disable'`.
mergeConfigIntoDisabled(stored, config) ==
    IF config.disabled THEN Disable
    ELSE [disabled |-> FALSE,
          config |-> merge(stored.config, config.config),
          properties |-> mergeProps(stored.properties, config.properties)]

\* Variant: without the `config === 'disable'` branch, so the entry of a
\* more-derived class survives an ancestor's 'disable'.
mergeConfigKeepsStored(stored, config) ==
    IF ~stored.disabled /\ ~config.disabled
    THEN [disabled |-> FALSE,
          config |-> merge(stored.config, config.config),
          properties |-> mergeProps(stored.properties, config.properties)]
    ELSE stored

\* One iteration of the forEach: `stored` is configs[name], `config` is the
\* entry declared by the class being visited.
mergeConfig(stored, config) ==
    IF config.disabled THEN Disable
    ELSE IF ~stored.disabled
    THEN [disabled |-> FALSE,
          config |-> merge(stored.config, config.config),
          properties |-> mergeProps(stored.properties, config.properties)]
    ELSE stored

addConfigs(configs, decl) ==
    [name \in DOMAIN configs \cup DOMAIN decl |->
        IF name \notin DOMAIN decl THEN configs[name]
        ELSE IF name \notin DOMAIN configs THEN decl[name]
        ELSE mergeConfig(configs[name], decl[name])]

RECURSIVE walkConfigs(_, _)
walkConfigs(configs, chain) ==
    IF chain = <<>> THEN configs
    ELSE walkConfigs(addConfigs(configs, FeaturesOf(Head(chain))), Tail(chain))

NoConfigs == [name \in {} |-> Disable]

getInheritedConfigs(constructor) == walkConfigs(NoConfigs, Chain(constructor))

\* The configs object after the first k classes of the walk.
ConfigsAfter(constructor, k) ==
    walkConfigs(NoConfigs, SubSeq(Chain(constructor), 1, k))

----------------------------------------------------------------------------
\* AuroCore: the static members found through the prototype chain.

\* constructor._featuresInitialized
FeaturesInitialized(c) == Owner(featuresInitialized, c) # "LitElement"

\* constructor._featureProperties (AuroCore owns one from the start, so the
\* lookup from a subclass always finds an object).
FeaturePropertiesOf(c) ==
    IF Owner(DOMAIN featureProperties, c) = "LitElement"
    THEN [p \in {} |-> ""]
    ELSE featureProperties[Owner(DOMAIN featureProperties, c)]

\* `static get properties()` looked up from class `from` and evaluated
\* with this = receiver.  The getter of AuroCore reads the base properties
\* from the prototype of the receiver and lays them over the feature
\* properties; LitElement declares none.  A host class that declares the
\* getter itself shadows the one of AuroCore: it returns its own
\* descriptors, laid over `super.properties` when it extends them.
RECURSIVE propertiesGetter(_, _)
propertiesGetter(from, receiver) ==
    IF from = "LitElement" THEN [p \in {} |-> ""]
    ELSE IF from = "AuroCore"
    THEN LET baseProperties ==
                 propertiesGetter(ParentOf[receiver], ParentOf[receiver])
             featureProps == FeaturePropertiesOf(receiver)
         IN [p \in DOMAIN featureProps \cup DOMAIN baseProperties |->
                IF p \in DOMAIN baseProperties THEN baseProperties[p]
                ELSE featureProps[p]]
    ELSE IF from \in DOMAIN ownProperties
    THEN LET own == ownProperties[from].properties
             inherited == IF ownProperties[from].extends
                          THEN propertiesGetter(ParentOf[from], receiver)
                          ELSE [p \in {} |-> ""]
         IN [p \in DOMAIN inherited \cup DOMAIN own |->
                IF p \in DOMAIN own THEN own[p] ELSE inherited[p]]
    ELSE propertiesGetter(ParentOf[from], receiver)

\* Variant: the feature properties laid over whatever the class chain
\* declares.
propertiesFeaturesFirst(c) ==
    LET declared == propertiesGetter(c, c)
        featureProps == FeaturePropertiesOf(c)
    IN [p \in DOMAIN featureProps \cup DOMAIN declared |->
           IF p \in DOMAIN featureProps THEN featureProps[p]
           ELSE declared[p]]

\* c.properties: the schema Lit reads for class c.
properties(c) == propertiesGetter(c, c)

----------------------------------------------------------------------------
\* FeatureManager.prepareFeatures

\* Variant: without the 'disable' test, every entry of the override is
\* assigned.
mergedPropertiesAssignAll(featureDef, featureConfigs) ==
    LET static == ModuleProperties(featureDef.class)
        patch == IF featureDef.name \in DOMAIN featureConfigs
                 THEN featureConfigs[featureDef.name].properties
                 ELSE [p \in {} |-> ""]
    IN [p \in DOMAIN static \cup DOMAIN patch |->
           IF p \in DOMAIN patch THEN patch[p] ELSE static[p]]

\* Static properties of the module with the properties of the override
\* applied: 'disable' deletes, a descriptor replaces or adds.
mergedProperties(featureDef, featureConfigs) ==
    LET static == ModuleProperties(featureDef.class)
        patch == IF featureDef.name \in DOMAIN featureConfigs
                 THEN featureConfigs[featureDef.name].properties
                 ELSE [p \in {} |-> ""]
        deleted == {p \in DOMAIN patch : patch[p] = "disable"}
    IN [p \in (DOMAIN static \cup DOMAIN patch) \ deleted |->
           IF p \in DOMAIN patch THEN patch[p] ELSE static[p]]

\* One iteration over providedFeatures: the registry after the feature has
\* been handled.
collectFeature(registry, featureDef, featureConfigs) ==
    IF /\ featureDef.name \in DOMAIN featureConfigs
       /\ featureConfigs[featureDef.name].disabled
    THEN registry
    ELSE IF ~featureDef.enabled
    THEN registry
    ELSE LET merged == mergedProperties(featureDef, featureConfigs)
         IN [p \in DOMAIN registry \cup DOMAIN merged |->
                IF p \in DOMAIN merged THEN merged[p] ELSE registry[p]]

RECURSIVE collectFeatures(_, _, _)
collectFeatures(registry, providedFeatures, featureConfigs) ==
    IF providedFeatures = <<>> THEN registry
    ELSE collectFeatures(
             collectFeature(registry, Head(providedFeatures), featureConfigs),
             Tail(providedFeatures), featureConfigs)

\* The class that owns the registry object prepareFeatures writes to.
RegistryOwner(c) ==
    IF Owner(DOMAIN featureProperties, c) = "LitElement"
    THEN c ELSE Owner(DOMAIN featureProperties, c)

\* Variant: without the test of `_featuresInitialized`.
prepareFeaturesEveryCall(constructor) ==
    LET owner == RegistryOwner(constructor)
        collected == collectFeatures(FeaturePropertiesOf(constructor),
                         getInheritedProvides(constructor),
                         getInheritedConfigs(constructor))
    IN /\ prepareCalls' = [prepareCalls EXCEPT ![constructor] = @ + 1]
       /\ featureProperties' =
              [o \in DOMAIN featureProperties \cup {owner} |->
                  IF o = owner THEN collected ELSE featureProperties[o]]
       /\ featuresInitialized' = featuresInitialized \cup {constructor}

prepareFeatures(constructor) ==
    /\ prepareCalls' = [prepareCalls EXCEPT ![constructor] = @ + 1]
    /\ IF FeaturesInitialized(constructor)
       THEN UNCHANGED <<featuresInitialized, featureProperties>>
       ELSE LET owner == RegistryOwner(constructor)
                collected == collectFeatures(
                                 FeaturePropertiesOf(constructor),
                                 getInheritedProvides(constructor),
                                 getInheritedConfigs(constructor))
            IN /\ featureProperties' =
                     [o \in DOMAIN featureProperties \cup {owner} |->
                         IF o = owner THEN collected
                         ELSE featureProperties[o]]
               /\ featuresInitialized' =
                     featuresInitialized \cup {constructor}

----------------------------------------------------------------------------
\* FeatureManager._initializeFeatures

\* Variant: the arguments of merge swapped, so the defaults win.
finalConfigDefaultsWin(featureDef, featureConfigs) ==
    IF featureDef.name \notin DOMAIN featureConfigs
    THEN featureDef.config
    ELSE merge(featureConfigs[featureDef.name].config, featureDef.config)

\* The config handed to the feature constructor.
finalConfig(featureDef, featureConfigs) ==
    IF featureDef.name \notin DOMAIN featureConfigs
    THEN featureDef.config
    ELSE merge(featureDef.config, featureConfigs[featureDef.name].config)

\* Variant: without the `featureConfig === 'disable'` test.
initializeFeatureIgnoresDisable(instances, featureDef, featureConfigs) ==
    IF featureDef.name \notin DOMAIN featureConfigs /\ ~featureDef.enabled
    THEN instances
    ELSE Append(instances,
                [name |-> featureDef.name,
                 class |-> featureDef.class,
                 config |-> finalConfig(featureDef, featureConfigs)])

\* Variant: the test of prepareFeatures, `if (!enabled) return`, in place
\* of `if (!featureConfig && !enabled) return`.
initializeFeatureEnabledOnly(instances, featureDef, featureConfigs) ==
    IF /\ featureDef.name \in DOMAIN featureConfigs
       /\ featureConfigs[featureDef.name].disabled
    THEN instances
    ELSE IF ~featureDef.enabled
    THEN instances
    ELSE Append(instances,
                [name |-> featureDef.name,
                 class |-> featureDef.class,
                 config |-> finalConfig(featureDef, featureConfigs)])

\* Variant: a feature that is off by default needs an override with a
\* config or property patch; an empty override does not enable it.
initializeFeatureNeedsPatch(instances, featureDef, featureConfigs) ==
    IF /\ featureDef.name \in DOMAIN featureConfigs
       /\ featureConfigs[featureDef.name].disabled
    THEN instances
    ELSE IF /\ ~featureDef.enabled
            /\ \/ featureDef.name \notin DOMAIN featureConfigs
               \/ /\ featureConfigs[featureDef.name].config = EmptyObject
                  /\ DOMAIN featureConfigs[featureDef.name].properties = {}
    THEN instances
    ELSE Append(instances,
                [name |-> featureDef.name,
                 class |-> featureDef.class,
                 config |-> finalConfig(featureDef, featureConfigs)])

\* One iteration over availableFeatures: the instances after the feature
\* has been handled.
initializeFeature(instances, featureDef, featureConfigs) ==
    IF /\ featureDef.name \in DOMAIN featureConfigs
       /\ featureConfigs[featureDef.name].disabled
    THEN instances
    ELSE IF featureDef.name \notin DOMAIN featureConfigs /\ ~featureDef.enabled
    THEN instances
    ELSE Append(instances,
                [name |-> featureDef.name,
                 class |-> featureDef.class,
                 config |-> finalConfig(featureDef, featureConfigs)])

\* `new FeatureClass(this.host, finalConfig)` is reached for the feature
\* and throws.
constructorThrows(featureDef, featureConfigs) ==
    /\ featureDef.class \in throwing
    /\ initializeFeature(<<>>, featureDef, featureConfigs) # <<>>

\* Variant: the exception of a constructor is swallowed and the iteration
\* goes on with the next feature.
RECURSIVE initializeFeaturesPastThrow(_, _, _)
initializeFeaturesPastThrow(instances, availableFeatures, featureConfigs) ==
    IF availableFeatures = <<>> THEN instances
    ELSE IF constructorThrows(Head(availableFeatures), featureConfigs)
    THEN initializeFeaturesPastThrow(instances, Tail(availableFeatures),
                                     featureConfigs)
    ELSE initializeFeaturesPastThrow(
             initializeFeature(instances, Head(availableFeatures),
                               featureConfigs),
             Tail(availableFeatures), featureConfigs)

\* The forEach over availableFeatures: an exception of a constructor ends
\* it, before `_featureInstances.set` of that iteration.
RECURSIVE initializeFeatures(_, _, _)
initializeFeatures(instances, availableFeatures, featureConfigs) ==
    IF availableFeatures = <<>> THEN instances
    ELSE IF constructorThrows(Head(availableFeatures), featureConfigs)
    THEN instances
    ELSE initializeFeatures(
             initializeFeature(instances, Head(availableFeatures),
                               featureConfigs),
             Tail(availableFeatures), featureConfigs)

\* The name of the feature whose constructor throws in the forEach, "none"
\* when the forEach completes.
RECURSIVE thrownBy(_, _)
thrownBy(availableFeatures, featureConfigs) ==
    IF availableFeatures = <<>> THEN "none"
    ELSE IF constructorThrows(Head(availableFeatures), featureConfigs)
    THEN Head(availableFeatures).name
    ELSE thrownBy(Tail(availableFeatures), featureConfigs)

\* Variant: an override that names no provided feature gets an instance
\* as well.
_initializeFeaturesOfOverrides(constructor) ==
    LET provided == getInheritedProvides(constructor)
        configs == getInheritedConfigs(constructor)
        extra == IF \E n \in DOMAIN configs : ~HasName(provided, n)
                 THEN LET n == CHOOSE n \in DOMAIN configs :
                                   ~HasName(provided, n)
                      IN <<[name |-> n, class |-> "FocusFeature",
                            config |-> configs[n].config]>>
                 ELSE <<>>
    IN initializeFeatures(<<>>, provided, configs) \o extra

\* The entries of _featureInstances, in insertion order, each with the
\* arguments its constructor received, when _initializeFeatures returns or
\* throws.
_initializeFeatures(constructor) ==
    initializeFeatures(<<>>, getInheritedProvides(constructor),
                       getInheritedConfigs(constructor))

----------------------------------------------------------------------------
\* FeatureManager.processLifecycle and the lifecycle handlers of AuroCore

\* The hook of a feature instance throws when it is invoked.
hookThrows(feature, methodName, thrower) ==
    /\ methodName \in ModuleMethods(feature.class)
    /\ feature.name = thrower

\* Variant: the forEach ends at the first instance without the method.
RECURSIVE processLifecycleEndsAtMissing(_, _, _)
processLifecycleEndsAtMissing(instances, methodName, thrower) ==
    IF instances = <<>> THEN <<>>
    ELSE IF methodName \notin ModuleMethods(Head(instances).class)
    THEN <<>>
    ELSE IF hookThrows(Head(instances), methodName, thrower)
    THEN <<Head(instances).name>>
    ELSE <<Head(instances).name>>
         \o processLifecycleEndsAtMissing(Tail(instances), methodName,
                                          thrower)

\* Variant: the exception of a hook is swallowed and the forEach goes on.
RECURSIVE processLifecycleCatches(_, _, _)
processLifecycleCatches(instances, methodName, thrower) ==
    IF instances = <<>> THEN <<>>
    ELSE IF methodName \notin ModuleMethods(Head(instances).class)
    THEN processLifecycleCatches(Tail(instances), methodName, thrower)
    ELSE <<Head(instances).name>>
         \o processLifecycleCatches(Tail(instances), methodName, thrower)

\* The names of the features whose hook is invoked by
\* `_featureInstances.forEach`, in order; an exception ends the forEach.
RECURSIVE processLifecycle(_, _, _)
processLifecycle(instances, methodName, thrower) ==
    IF instances = <<>> THEN <<>>
    ELSE IF methodName \notin ModuleMethods(Head(instances).class)
    THEN processLifecycle(Tail(instances), methodName, thrower)
    ELSE IF hookThrows(Head(instances), methodName, thrower)
    THEN <<Head(instances).name>>
    ELSE <<Head(instances).name>>
         \o processLifecycle(Tail(instances), methodName, thrower)

\* processLifecycle ends with the exception of a hook.
processLifecycleThrows(instances, methodName, thrower) ==
    \E i \in 1..Len(instances) : hookThrows(instances[i], methodName, thrower)

\* The statements of a handler.
ProcessLifecycle(methodName) == [op |-> "processLifecycle", method |-> methodName]

Super(methodName) == [op |-> "super", method |-> methodName]

\* Variant: super.connectedCallback() as the first statement.
connectedCallbackSuperFirst ==
    <<Super("connectedCallback"),
      ProcessLifecycle("beforeConnectedCallback"),
      ProcessLifecycle("connectedCallback"),
      ProcessLifecycle("afterConnectedCallback")>>

connectedCallbackStatements ==
    <<ProcessLifecycle("beforeConnectedCallback"),
      Super("connectedCallback"),
      ProcessLifecycle("connectedCallback"),
      ProcessLifecycle("afterConnectedCallback")>>

disconnectedCallbackStatements ==
    <<ProcessLifecycle("beforeDisconnectedCallback"),
      ProcessLifecycle("disconnectedCallback"),
      Super("disconnectedCallback"),
      ProcessLifecycle("afterDisconnectedCallback")>>

firstUpdatedStatements ==
    <<ProcessLifecycle("beforeFirstUpdated"),
      Super("firstUpdated"),
      ProcessLifecycle("firstUpdated"),
      ProcessLifecycle("afterFirstUpdated")>>

updatedStatements ==
    <<ProcessLifecycle("beforeUpdated"),
      Super("updated"),
      ProcessLifecycle("updated"),
      ProcessLifecycle("afterUpdated")>>

attributeChangedCallbackStatements ==
    <<ProcessLifecycle("beforeAttributeChangedCallback"),
      Super("attributeChangedCallback"),
      ProcessLifecycle("attributeChangedCallback"),
      ProcessLifecycle("afterAttributeChangedCallback")>>

\* What the statements of a handler do, one entry per statement executed:
\* the hooks invoked by a processLifecycle statement and whether it ended
\* with an exception, which ends the handler.
RECURSIVE execute(_, _, _)
execute(statements, instances, thrower) ==
    IF statements = <<>> THEN <<>>
    ELSE LET st == Head(statements)
         IN IF st.op = "super"
            THEN <<[op |-> "super", method |-> st.method,
                    invoked |-> <<>>, threw |-> FALSE]>>
                 \o execute(Tail(statements), instances, thrower)
            ELSE LET threw == processLifecycleThrows(instances, st.method,
                                                     thrower)
                 IN <<[op |-> "processLifecycle", method |-> st.method,
                       invoked |-> processLifecycle(instances, st.method,
                                                    thrower),
                       threw |-> threw]>>
                    \o IF threw THEN <<>>
                       ELSE execute(Tail(statements), instances, thrower)

----------------------------------------------------------------------------
\* AuroFeature: the declared properties of a module, mirrored on the host.
\* An element is the pair of the fields of the host and, per feature name,
\* the `_internalValues` of its instance; values are strings.

Get(object, key) == IF key \in DOMAIN object THEN object[key] ELSE "undefined"

Set(object, key, value) ==
    [k \in DOMAIN object \cup {key} |-> IF k = key THEN value ELSE object[k]]

NoElement == [host |-> [p \in {} |-> ""], internal |-> [n \in {} |-> ""]]

\* Variant: observers only for the properties the class publishes for the
\* feature, those its property patch disables left out.
observedPropertiesPublished(constructor, feature) ==
    LET configs == getInheritedConfigs(constructor)
    IN {p \in DOMAIN ModuleProperties(feature.class) :
           ~(/\ feature.name \in DOMAIN configs
             /\ Get(configs[feature.name].properties, p) = "disable")}

\* The properties _auroFeatureInit creates an observer for: the entries of
\* `this.constructor.properties`, the static properties of the module.
observedProperties(constructor, feature) ==
    DOMAIN ModuleProperties(feature.class)

\* Variant: the setter stores the value in the instance alone.
setPropertyInternalOnly(element, constructor, feature, p, v) ==
    IF p \in observedProperties(constructor, feature)
    THEN [host |-> element.host,
          internal |-> Set(element.internal, feature.name,
                           Set(element.internal[feature.name], p, v))]
    ELSE element

\* `this[p] = v` in a module: the setter of the observer writes the host
\* field and the internal value; without an observer the value lands in a
\* plain field of the instance.
setProperty(element, constructor, feature, p, v) ==
    IF p \in observedProperties(constructor, feature)
    THEN [host |-> Set(element.host, p, v),
          internal |-> Set(element.internal, feature.name,
                           Set(element.internal[feature.name], p, v))]
    ELSE element

\* _auroFeatureInit: `this[p] || this.host[p]` is the host field, the
\* instance holding nothing yet.
_auroFeatureInit(element, constructor, feature) ==
    [host |-> element.host,
     internal |-> Set(element.internal, feature.name,
                      [p \in observedProperties(constructor, feature) |->
                          Get(element.host, p)])]

\* What JavaScript takes for true of the values of the model.
Truthy(value) == value \notin {"undefined", "false", ""}

\* String.prototype.toLowerCase on the values of the model.
toLowerCase(value) == IF value = "Page" THEN "page" ELSE value

\* `layoutClasses`: the object holds at most one key that starts with
\* 'layout-' and at most one that starts with 'shape-', each of the two
\* functions below deleting the keys of its prefix before it adds one; ""
\* stands for no key of the prefix.
NoClasses == [layout |-> "", shape |-> ""]

updateLayoutClasses(element, constructor, feature) ==
    LET own == element.internal[feature.name]
    IN IF Truthy(Get(own, "layout"))
       THEN setProperty(element, constructor, feature, "layoutClasses",
                [own["layoutClasses"] EXCEPT
                    !.layout = "layout-" \o toLowerCase(own["layout"])])
       ELSE element

updateShapeClasses(element, constructor, feature) ==
    LET own == element.internal[feature.name]
    IN setProperty(element, constructor, feature, "layoutClasses",
           [own["layoutClasses"] EXCEPT
               !.shape = IF Truthy(Get(own, "shape"))
                            /\ Truthy(Get(own, "size"))
                         THEN "shape-" \o toLowerCase(own["shape"]) \o "-"
                                  \o toLowerCase(own["size"])
                         ELSE "shape-none"])

updateComponentArchitecture(element, constructor, feature) ==
    updateShapeClasses(updateLayoutClasses(element, constructor, feature),
                       constructor, feature)

\* The assignments in the constructor body of a module, in order; the
\* config keys they read are not set in the declarations of the model, so
\* the defaults are assigned.
ConstructorWrites(FeatureClass) ==
    CASE FeatureClass = "LayoutFeature" ->
             <<(<<"layout", "classic">>), <<"shape", "pill">>,
               <<"size", "md">>, <<"onDark", "false">>,
               <<"layoutClasses", NoClasses>>>>
      [] FeatureClass = "RootLayoutFeature" ->
             <<(<<"layout", "default">>), <<"shape", "default">>,
               <<"size", "default">>, <<"onDark", "false">>>>
      [] FeatureClass = "FocusFeature" -> <<(<<"hasFocus", "false">>)>>
      [] OTHER -> <<>>

RECURSIVE applyWrites(_, _, _, _)
applyWrites(element, constructor, feature, assignments) ==
    IF assignments = <<>> THEN element
    ELSE applyWrites(setProperty(element, constructor, feature,
                                 Head(assignments)[1], Head(assignments)[2]),
                     constructor, feature, Tail(assignments))

\* `featureInstance.properties`: per entry, the sequence holding its
\* `value` when it has one.  No module of the source exposes the map.
InstanceProperties(FeatureClass) ==
    IF FeatureClass = "SeedFeature"
    THEN [p \in {"seeded", "plain", "layout"} |->
             IF p = "plain" THEN <<>> ELSE <<"seed">>]
    ELSE [p \in {} |-> <<>>]

\* Variant: every entry is written, `undefined` for one without `value`.
seedHostEveryEntry(host, FeatureClass) ==
    LET entries == InstanceProperties(FeatureClass)
    IN [p \in DOMAIN host \cup DOMAIN entries |->
           IF p \in DOMAIN entries
           THEN IF entries[p] # <<>> THEN entries[p][1] ELSE "undefined"
           ELSE host[p]]

\* The loop over `featureInstance.properties` in _initializeFeatures:
\* `this.host[propName] = propConfig.value` for an entry that has `value`.
seedHost(host, FeatureClass) ==
    LET entries == InstanceProperties(FeatureClass)
        valued == {p \in DOMAIN entries : entries[p] # <<>>}
    IN [p \in DOMAIN host \cup valued |->
           IF p \in valued THEN entries[p][1] ELSE host[p]]

\* One iteration of _initializeFeatures on the element: the constructor of
\* AuroFeature, the constructor body of the module, then the seeding.
composeFeature(element, constructor, feature) ==
    LET assigned == applyWrites(
                        _auroFeatureInit(element, constructor, feature),
                        constructor, feature,
                        ConstructorWrites(feature.class))
        built == IF feature.class = "LayoutFeature"
                 THEN updateComponentArchitecture(assigned, constructor,
                                                  feature)
                 ELSE assigned
    IN [host |-> seedHost(built.host, feature.class),
        internal |-> built.internal]

RECURSIVE composeFeatures(_, _, _)
composeFeatures(element, constructor, instances) ==
    IF instances = <<>> THEN element
    ELSE composeFeatures(composeFeature(element, constructor,
                                        Head(instances)),
                         constructor, Tail(instances))

\* Variant: AuroFeature.updated copies every declared property.
hookEffectCopiesAll(element, constructor, feature, methodName, changed) ==
    IF feature.class = "LifecycleLoggerFeature"
       \/ methodName \notin {"firstUpdated", "updated"}
    THEN element
    ELSE [host |-> element.host,
          internal |-> Set(element.internal, feature.name,
                           [p \in DOMAIN element.internal[feature.name]
                                    \cup DOMAIN ModuleProperties(feature.class)
                               |-> IF p \in DOMAIN ModuleProperties(feature.class)
                                   THEN Get(element.host, p)
                                   ELSE element.internal[feature.name][p]])]

\* What the hook of an instance does to the element.  AuroFeature.
\* firstUpdated copies the host field of every declared property into the
\* instance, AuroFeature.updated those named in changedProperties;
\* LayoutFeature.updated then assigns layoutClasses when layout, shape or
\* size changed.  LifecycleLoggerFeature overrides both and only logs.
hookEffect(element, constructor, feature, methodName, changed) ==
    IF feature.class = "LifecycleLoggerFeature"
       \/ methodName \notin {"firstUpdated", "updated"}
    THEN element
    ELSE LET declared == DOMAIN ModuleProperties(feature.class)
             copied == IF methodName = "firstUpdated" THEN declared
                       ELSE declared \cap changed
             own == element.internal[feature.name]
             synced == [host |-> element.host,
                        internal |->
                            Set(element.internal, feature.name,
                                [p \in DOMAIN own \cup copied |->
                                    IF p \in copied THEN Get(element.host, p)
                                    ELSE own[p]])]
         IN IF /\ methodName = "updated"
               /\ feature.class = "LayoutFeature"
               /\ changed \cap {"layout", "shape", "size"} # {}
            THEN updateComponentArchitecture(synced, constructor, feature)
            ELSE synced

\* The element after processLifecycle(methodName, changed): the hooks run
\* in order until one throws.
RECURSIVE dispatchEffect(_, _, _, _, _, _)
dispatchEffect(element, constructor, instances, methodName, thrower, changed) ==
    IF instances = <<>> THEN element
    ELSE IF methodName \notin ModuleMethods(Head(instances).class)
    THEN dispatchEffect(element, constructor, Tail(instances), methodName,
                        thrower, changed)
    ELSE IF hookThrows(Head(instances), methodName, thrower)
    THEN element
    ELSE dispatchEffect(hookEffect(element, constructor, Head(instances),
                                   methodName, changed),
                        constructor, Tail(instances), methodName, thrower,
                        changed)

----------------------------------------------------------------------------
\* The declarations the model is run on.

\* The default config a class declares for a feature it provides and the
\* values it puts in a config patch carry the level of the class, so every
\* value of a resolved config names the declaration it came from.
DefaultConfig(c) ==
    (<<"a">> :> 10 + Level[c]) @@ (<<"b">> :> 10 + Level[c])
        @@ (<<"n", "k">> :> 10 + Level[c]) @@ (<<"n", "j">> :> 10 + Level[c])

PatchPaths == {<<"b">>, <<"n", "k">>}

\* A config patch of class c: nothing, or one of the keys b and n.k.
ConfigPatches(c) ==
    {EmptyObject} \cup {[p \in {path} |-> Level[c]] : path \in PatchPaths}

PatchDescriptor == [c \in Classes |->
                      CASE c = "A" -> "descA" [] c = "B" -> "descB"
                        [] c = "C" -> "descC"]

NoProperties == [p \in {} |-> ""]

\* A property patch of class c: nothing, or the property `layout` disabled
\* or given a descriptor of the class.
PropertyPatches(c) ==
    {NoProperties}
    \cup {[p \in {"layout"} |-> v] : v \in {"disable", PatchDescriptor[c]}}

OverrideEntries(c) ==
    {Disable}
    \cup {[disabled |-> FALSE, config |-> cp, properties |-> NoProperties] :
             cp \in ConfigPatches(c)}
    \cup {[disabled |-> FALSE, config |-> EmptyObject, properties |-> pp] :
             pp \in PropertyPatches(c)}

\* What a class may write for `static get features()`: nothing (the getter
\* is inherited), an empty object, or one entry for the layout feature.
FeaturesDeclarations(c) ==
    {<<>>, <<NoConfigs>>}
    \cup {<<[name \in {"layout"} |-> e]>> : e \in OverrideEntries(c)}

\* What a class may write for `static get provides()`: nothing, or one
\* definition.
ProvidesDeclarations(c) ==
    {<<>>}
    \cup {<<(<<[name |-> n, class |-> k,
               config |-> IF k = "LayoutFeature" THEN DefaultConfig(c)
                          ELSE EmptyObject,
               enabled |-> e]>>)>> :
             n \in FeatureNames, k \in FeatureClasses, e \in BOOLEAN}

\* The static getters of the hierarchy, from one optional declaration per
\* class; AuroCore declares both getters, returning {}.
Declared(opt, ofAuroCore) ==
    [c \in {"AuroCore"} \cup {k \in Classes : opt[k] # <<>>} |->
        IF c = "AuroCore" THEN ofAuroCore ELSE opt[c][1]]

\* Overrides declared by the leaf class alone.
LeafFeatures ==
    {<<>>,
     <<[name \in {"focus"} |->
          [disabled |-> FALSE, config |-> EmptyObject,
           properties |-> NoProperties]]>>,
     <<[name \in {"focus"} |-> Disable]>>,
     <<[name \in {"layout"} |-> Disable]>>}

\* No lifecycle handler has been called.
NoCalls == [host |-> 0, handler |-> "none", thrower |-> "none",
            changed |-> {}, trace |-> <<>>]

\* No host class declares `properties`, no feature constructor throws.
PlainHosts ==
    /\ ownProperties = [c \in {} |-> [extends |-> FALSE,
                                      properties |-> NoProperties]]
    /\ throwing = {}

\* The state before any class is registered: AuroCore owns an empty
\* `_featureProperties`, no class owns `_featuresInitialized`.
InitRuntime ==
    /\ featuresInitialized = {}
    /\ featureProperties = [c \in {"AuroCore"} |-> NoProperties]
    /\ registered = {}
    /\ hosts = <<>>
    /\ aborted = <<>>
    /\ prepareCalls = [c \in Classes |-> 0]
    /\ calls = NoCalls
    /\ fields = <<>>
    /\ internalValues = <<>>
    /\ writes = 0
    /\ resolutions = [c \in Classes |-> <<>>]

\* Any class provides anything; only the leaf overrides.
InitProvides ==
    /\ \E pa \in ProvidesDeclarations("A"), pb \in ProvidesDeclarations("B"),
          pc \in ProvidesDeclarations("C"), fc \in LeafFeatures :
           /\ provides = Declared([c \in Classes |->
                             CASE c = "A" -> pa [] c = "B" -> pb
                               [] c = "C" -> pc],
                             <<>>)
           /\ features = Declared([c \in Classes |->
                             IF c = "C" THEN fc ELSE <<>>], NoConfigs)
    /\ PlainHosts
    /\ InitRuntime

\* A provides the layout feature; any class overrides it.
InitFeatures ==
    /\ \E fa \in FeaturesDeclarations("A"), fb \in FeaturesDeclarations("B"),
          fc \in FeaturesDeclarations("C"), e \in BOOLEAN :
           /\ provides = Declared([c \in Classes |->
                             IF c = "A"
                             THEN <<(<<[name |-> "layout",
                                        class |-> "LayoutFeature",
                                        config |-> DefaultConfig("A"),
                                        enabled |-> e]>>)>>
                             ELSE <<>>], <<>>)
           /\ features = Declared([c \in Classes |->
                             CASE c = "A" -> fa [] c = "B" -> fb
                               [] c = "C" -> fc],
                             NoConfigs)
    /\ PlainHosts
    /\ InitRuntime

\* A feature definition of `provides` with the defaults of the source.
Provide(name, class, config) ==
    [name |-> name, class |-> class, config |-> config, enabled |-> TRUE]

\* What A provides in the family of hosts: features with and without
\* lifecycle hooks, one of them off by default, and two layout modules
\* that declare properties of the same names.
HostProvides ==
    {<<Provide("layout", "LayoutFeature", DefaultConfig("A")),
       Provide("logger", "LifecycleLoggerFeature", EmptyObject)>>,
     <<Provide("logger", "LifecycleLoggerFeature", EmptyObject),
       Provide("layout", "LayoutFeature", DefaultConfig("A")),
       [name |-> "focus", class |-> "FocusFeature",
        config |-> EmptyObject, enabled |-> FALSE]>>,
     <<Provide("layout", "LayoutFeature", DefaultConfig("A")),
       Provide("rootLayout", "RootLayoutFeature", EmptyObject)>>,
     <<Provide("rootLayout", "RootLayoutFeature", EmptyObject),
       Provide("layout", "LayoutFeature", DefaultConfig("A"))>>}

\* What a host class may write for `static get properties()`: nothing, a
\* literal, or its own descriptors laid over `super.properties`.
PropertiesDeclarations ==
    {<<>>}
    \cup {<<[extends |-> x,
             properties |-> [p \in {"layout", "label"} |-> "host"]]>> :
             x \in BOOLEAN}

\* The feature constructors that throw in one run.
ThrowingConstructors == {{}, {"LayoutFeature"}, {"LifecycleLoggerFeature"}}

\* A provides several features and B may provide one more; either A or B
\* declares properties, or a feature constructor throws, or neither.  B
\* provides its feature only where no class declares properties, and the
\* two layout modules meet only where, besides, no constructor throws.
InitHosts ==
    /\ \E pa \in HostProvides,
          pb \in {<<>>, <<(<<Provide("focus", "FocusFeature",
                                     EmptyObject)>>)>>},
          k \in {"A", "B"},
          d \in PropertiesDeclarations,
          t \in ThrowingConstructors :
           /\ d = <<>> \/ t = {}
           /\ \/ d = <<>> /\ t = {}
              \/ /\ pb = <<>> \/ d = <<>>
                 /\ \A i \in 1..Len(pa) : pa[i].class # "RootLayoutFeature"
           /\ provides = Declared([c \in Classes |->
                             CASE c = "A" -> <<pa>> [] c = "B" -> pb
                               [] c = "C" -> <<>>],
                             <<>>)
           /\ features = Declared([c \in Classes |-> <<>>], NoConfigs)
           /\ ownProperties = [c \in {x \in {k} : d # <<>>} |-> d[1]]
           /\ throwing = t
    /\ InitRuntime

\* A provides the layout feature, B may override it; prepareFeatures is
\* called directly as well as by register.
InitPrepare ==
    /\ \E fb \in FeaturesDeclarations("B"), e \in BOOLEAN :
           /\ provides = Declared([c \in Classes |->
                             IF c = "A"
                             THEN <<(<<[name |-> "layout",
                                        class |-> "LayoutFeature",
                                        config |-> DefaultConfig("A"),
                                        enabled |-> e]>>)>>
                             ELSE <<>>], <<>>)
           /\ features = Declared([c \in Classes |->
                             IF c = "B" THEN fb ELSE <<>>], NoConfigs)
    /\ PlainHosts
    /\ InitRuntime

\* What A provides in the family of elements: the layout feature alone,
\* before or after a module that seeds the host.
FieldProvides ==
    {<<Provide("layout", "LayoutFeature", DefaultConfig("A"))>>,
     <<Provide("seed", "SeedFeature", EmptyObject),
       Provide("layout", "LayoutFeature", DefaultConfig("A"))>>,
     <<Provide("layout", "LayoutFeature", DefaultConfig("A")),
       Provide("seed", "SeedFeature", EmptyObject)>>}

\* The state after `k.register()` on a page that has done nothing else:
\* prepareFeatures(k) has collected into the registry of AuroCore and has
\* set the flag of k.
Registered(k) ==
    /\ featuresInitialized = {k}
    /\ featureProperties =
          [c \in {"AuroCore"} |->
              collectFeatures(NoProperties, getInheritedProvides(k),
                              getInheritedConfigs(k))]
    /\ registered = {k}
    /\ prepareCalls = [c \in Classes |-> IF c = k THEN 1 ELSE 0]
    /\ hosts = <<>>
    /\ aborted = <<>>
    /\ calls = NoCalls
    /\ fields = <<>>
    /\ internalValues = <<>>
    /\ writes = 0
    /\ resolutions = [c \in Classes |-> <<>>]

\* A provides the features and is registered, or B disables the property
\* `layout` of the layout feature and is registered.
InitFields ==
    /\ \E pa \in FieldProvides,
          fb \in {<<>>, <<[name \in {"layout"} |->
                            [disabled |-> FALSE, config |-> EmptyObject,
                             properties |->
                                 [p \in {"layout"} |-> "disable"]]]>>} :
           /\ fb = <<>> \/ Len(pa) = 1
           /\ provides = Declared([c \in Classes |->
                             IF c = "A" THEN <<pa>> ELSE <<>>], <<>>)
           /\ features = Declared([c \in Classes |->
                             IF c = "B" THEN fb ELSE <<>>], NoConfigs)
           /\ PlainHosts
           /\ Registered(IF fb = <<>> THEN "A" ELSE "B")

Init ==
    InitProvides \/ InitFeatures \/ InitHosts \/ InitPrepare \/ InitFields

----------------------------------------------------------------------------
\* Variant: customElements.define alone.
registerDefinesOnly(c) ==
    /\ c \notin registered
    /\ registered' = registered \cup {c}
    /\ UNCHANGED <<provides, features, hosts, ownProperties, throwing,
                   aborted, calls, featuresInitialized, featureProperties,
                   prepareCalls, fields, internalValues, writes,
                   resolutions>>

\* AuroCore.register: prepareFeatures(this), then customElements.define.
register(c) ==
    /\ c \notin registered
    /\ prepareCalls[c] < MaxPrepareCalls
    /\ prepareFeatures(c)
    /\ registered' = registered \cup {c}
    /\ UNCHANGED <<provides, features, hosts, ownProperties, throwing,
                   aborted, calls, fields, internalValues, writes,
                   resolutions>>

\* FeatureManager.prepareFeatures is a public static method: a call of it
\* that is not made by register.
prepare(c) ==
    /\ prepareCalls[c] < MaxPrepareCalls
    /\ prepareFeatures(c)
    /\ UNCHANGED <<provides, features, registered, hosts, ownProperties,
                   throwing, aborted, calls, fields, internalValues, writes,
                   resolutions>>

\* The AuroCore constructor: new FeatureManager(this, this.constructor),
\* whose constructor runs _initializeFeatures.  Elements are created by the
\* custom element registry, so the class has been defined.  An exception
\* of a feature constructor leaves the constructors of FeatureManager and
\* of the host: no element results.
construct(c) ==
    /\ c \in registered
    /\ Len(hosts) + Len(aborted) < MaxHosts
    /\ LET error == thrownBy(getInheritedProvides(c), getInheritedConfigs(c))
           element == composeFeatures(NoElement, c, _initializeFeatures(c))
       IN IF error = "none"
          THEN /\ hosts' = Append(hosts,
                               [constructor |-> c,
                                _featureInstances |-> _initializeFeatures(c)])
               /\ fields' = Append(fields, element.host)
               /\ internalValues' = Append(internalValues, element.internal)
               /\ aborted' = aborted
          ELSE /\ aborted' = Append(aborted,
                                 [constructor |-> c,
                                  _featureInstances |-> _initializeFeatures(c),
                                  error |-> error])
               /\ UNCHANGED <<hosts, fields, internalValues>>
    /\ UNCHANGED <<provides, features, featuresInitialized,
                   featureProperties, registered, ownProperties, throwing,
                   prepareCalls, calls, writes, resolutions>>

\* A lifecycle handler of AuroCore called on host h with changedProperties
\* `changed`; a hook of the feature `thrower` throws when it is invoked
\* ("none": no hook throws).  The hooks of the event-named dispatch act on
\* the element.
handle(h, handler, statements, thrower, changed) ==
    /\ h \in 1..Len(hosts)
    /\ calls' = [host |-> h, handler |-> handler, thrower |-> thrower,
                 changed |-> changed,
                 trace |-> execute(statements, hosts[h]._featureInstances,
                                   thrower)]
    /\ LET element == dispatchEffect([host |-> fields[h],
                                      internal |-> internalValues[h]],
                                     hosts[h].constructor,
                                     hosts[h]._featureInstances, handler,
                                     thrower, changed)
       IN /\ fields' = [fields EXCEPT ![h] = element.host]
          /\ internalValues' =
                [internalValues EXCEPT ![h] = element.internal]
    /\ UNCHANGED <<provides, features, featuresInitialized,
                   featureProperties, registered, hosts, ownProperties,
                   throwing, aborted, prepareCalls, writes, resolutions>>

Throwers == {"none", "layout", "logger"}

\* The non-empty values of changedProperties that are followed.
ChangedSets == {{"layout"}, {"shape"}}

connectedCallback(h) ==
    \E thrower \in Throwers :
        handle(h, "connectedCallback", connectedCallbackStatements, thrower,
               {})

disconnectedCallback(h) ==
    \E thrower \in Throwers :
        handle(h, "disconnectedCallback", disconnectedCallbackStatements,
               thrower, {})

firstUpdated(h) ==
    \E thrower \in Throwers :
        handle(h, "firstUpdated", firstUpdatedStatements, thrower, {})

updated(h) ==
    \E thrower \in Throwers :
        handle(h, "updated", updatedStatements, thrower, {})

\* updated(changedProperties) after properties of host h have changed; no
\* hook throws.
propertiesUpdated(h) ==
    \E changed \in ChangedSets :
        handle(h, "updated", updatedStatements, "none", changed)

attributeChangedCallback(h) ==
    \E thrower \in Throwers :
        handle(h, "attributeChangedCallback",
               attributeChangedCallbackStatements, thrower, {})

\* The properties the page and the modules write after construction: the
\* page the value "Page", the modules the values below.
WritableProperties == {"layout", "shape"}

Values == {"v1", "v2"}

\* The instance of feature i of host h assigns v to its property p.
moduleWrite(h, i, p, v) ==
    /\ h \in 1..Len(hosts)
    /\ i \in 1..Len(hosts[h]._featureInstances)
    /\ p \in DOMAIN ModuleProperties(hosts[h]._featureInstances[i].class)
    /\ writes < MaxWrites
    /\ writes' = writes + 1
    /\ LET element == setProperty([host |-> fields[h],
                                   internal |-> internalValues[h]],
                                  hosts[h].constructor,
                                  hosts[h]._featureInstances[i], p, v)
       IN /\ fields' = [fields EXCEPT ![h] = element.host]
          /\ internalValues' =
                [internalValues EXCEPT ![h] = element.internal]
    /\ UNCHANGED <<provides, features, featuresInitialized,
                   featureProperties, registered, hosts, ownProperties,
                   throwing, aborted, prepareCalls, calls, resolutions>>

\* Field p of host h is assigned from outside the modules (an attribute,
\* the page): the instances do not see the assignment.
hostWrite(h, p, v) ==
    /\ h \in 1..Len(hosts)
    /\ writes < MaxWrites
    /\ writes' = writes + 1
    /\ fields' = [fields EXCEPT ![h] = Set(fields[h], p, v)]
    /\ UNCHANGED <<provides, features, featuresInitialized,
                   featureProperties, registered, hosts, ownProperties,
                   throwing, aborted, prepareCalls, calls, internalValues,
                   resolutions>>

\* Variant: the walk stores the merged overrides in the declaration of the
\* class it started from.
resolveStoresMerged(c) ==
    /\ resolutions' =
          [resolutions EXCEPT ![c] =
              <<[visited |-> Chain(c),
                 provides |-> getInheritedProvides(c),
                 configs |-> getInheritedConfigs(c)]>>]
    /\ features' = [k \in DOMAIN features \cup {c} |->
                       IF k = c THEN getInheritedConfigs(c)
                       ELSE features[k]]
    /\ UNCHANGED <<provides, featuresInitialized, featureProperties,
                   registered, hosts, ownProperties, throwing, aborted,
                   prepareCalls, calls, fields, internalValues, writes>>

\* getInheritedProvides(c) and getInheritedConfigs(c) called from outside:
\* the classes visited and the two results; neither function assigns to a
\* class or to an object it read from one.
resolve(c) ==
    /\ resolutions' =
          [resolutions EXCEPT ![c] =
              <<[visited |-> Chain(c),
                 provides |-> getInheritedProvides(c),
                 configs |-> getInheritedConfigs(c)]>>]
    /\ UNCHANGED <<provides, features, featuresInitialized,
                   featureProperties, registered, hosts, ownProperties,
                   throwing, aborted, prepareCalls, calls, fields,
                   internalValues, writes>>

Next ==
    \/ \E c \in Classes : register(c)
    \/ \E c \in Classes : construct(c)

\* The operations of a page that also calls prepareFeatures itself.
NextPrepare ==
    \/ \E c \in Classes : register(c)
    \/ \E c \in Classes : construct(c)
    \/ \E c \in Classes : prepare(c)

\* The operations of a page whose elements go through their lifecycle.
NextLifecycle ==
    \/ \E c \in Classes : register(c)
    \/ \E c \in Classes : construct(c)
    \/ \E h \in 1..MaxHosts : connectedCallback(h)
    \/ \E h \in 1..MaxHosts : disconnectedCallback(h)
    \/ \E h \in 1..MaxHosts : firstUpdated(h)
    \/ \E h \in 1..MaxHosts : updated(h)
    \/ \E h \in 1..MaxHosts : attributeChangedCallback(h)

\* The operations of a page whose elements and modules assign properties.
NextFields ==
    \/ \E c \in Classes : construct(c)
    \/ \E h \in 1..MaxHosts, i \in 1..2, p \in WritableProperties,
          v \in Values : moduleWrite(h, i, p, v)
    \/ \E h \in 1..MaxHosts, p \in WritableProperties :
          hostWrite(h, p, "Page")
    \/ \E h \in 1..MaxHosts : propertiesUpdated(h)

\* The resolution functions called on their own.
NextResolve == \E c \in Classes : resolve(c)

Spec ==
    Init /\ [][NextLifecycle \/ NextPrepare \/ NextFields \/ NextResolve]_vars

\* The same program on each family of declarations.
SpecProvides == InitProvides /\ [][Next]_vars

SpecFeatures == InitFeatures /\ [][Next]_vars

SpecHosts == InitHosts /\ [][NextLifecycle]_vars

SpecPrepare == InitPrepare /\ [][NextPrepare]_vars

SpecFields == InitFields /\ [][NextFields]_vars

SpecResolve == InitFeatures /\ [][NextResolve]_vars

----------------------------------------------------------------------------
\* Vocabulary of the properties: what the classes wrote, read from the
\* declarations themselves and not from the resolution functions.

Positions(c) == 1..Len(Chain(c))

\* Class k itself declares, in its own `provides`, a definition named n.
DeclaresProvide(k, n) == k \in DOMAIN provides /\ HasName(provides[k], n)

OwnDefinition(k, n) ==
    provides[k][CHOOSE i \in 1..Len(provides[k]) : provides[k][i].name = n]

ProvidedInChain(c, n) ==
    \E i \in Positions(c) : DeclaresProvide(Chain(c)[i], n)

\* The most-derived class of the chain of c that declares n.
MostDerived(c, n) ==
    LET ch == Chain(c)
    IN ch[CHOOSE i \in Positions(c) :
              /\ DeclaresProvide(ch[i], n)
              /\ \A j \in 1..(i - 1) : ~DeclaresProvide(ch[j], n)]

\* Class k itself declares, in its own `features`, an entry named n.
DeclaresOverride(k, n) == k \in DOMAIN features /\ n \in DOMAIN features[k]

DeclaresDisable(k, n) == DeclaresOverride(k, n) /\ features[k][n].disabled

DeclaresPatch(k, n) == DeclaresOverride(k, n) /\ ~features[k][n].disabled

\* The positions of the chain of c whose class declares an entry for n.
Overriders(c, n) == {i \in Positions(c) : DeclaresOverride(Chain(c)[i], n)}

HostIndexes == 1..Len(hosts)

Instances(h) == hosts[h]._featureInstances

InstanceNames(h) == {Instances(h)[i].name : i \in 1..Len(Instances(h))}

----------------------------------------------------------------------------
\* C1: for every class and every feature name declared by a class of its
\* chain, getInheritedProvides returns exactly one definition of that name,
\* the one written by the most-derived declaring class; the module class and
\* the default config handed to the constructor on a host come from that
\* definition, never from an ancestor's definition of the same name.
C1_MostDerivedProvideWins ==
    /\ \A c \in Classes, n \in FeatureNames :
          ProvidedInChain(c, n) =>
              LET res == getInheritedProvides(c)
                  named == {i \in 1..Len(res) : res[i].name = n}
              IN /\ Cardinality(named) = 1
                 /\ \A i \in named :
                       res[i] = OwnDefinition(MostDerived(c, n), n)
    /\ \A h \in HostIndexes :
          \A i \in 1..Len(Instances(h)) :
              LET inst == Instances(h)[i]
                  c == hosts[h].constructor
                  d == OwnDefinition(MostDerived(c, inst.name), inst.name)
                  patch == IF inst.name \in DOMAIN getInheritedConfigs(c)
                           THEN getInheritedConfigs(c)[inst.name].config
                           ELSE EmptyObject
              IN /\ inst.class = d.class
                 /\ \A p \in DOMAIN inst.config :
                       \/ p \in DOMAIN patch /\ inst.config[p] = patch[p]
                       \/ p \in DOMAIN d.config /\ inst.config[p] = d.config[p]

\* A host whose class re-declares a feature that an ancestor declares with
\* another module class, another config and another enabled flag.
C1_Witness ==
    \E h \in HostIndexes :
        \E i \in 1..Len(Instances(h)) :
            LET n == Instances(h)[i].name
                c == hosts[h].constructor
                top == MostDerived(c, n)
            IN \E j \in Positions(c) :
                  /\ Chain(c)[j] # top
                  /\ DeclaresProvide(Chain(c)[j], n)
                  /\ OwnDefinition(Chain(c)[j], n).class
                        # OwnDefinition(top, n).class
                  /\ OwnDefinition(Chain(c)[j], n).config
                        # OwnDefinition(top, n).config
                  /\ OwnDefinition(Chain(c)[j], n).enabled
                        # OwnDefinition(top, n).enabled

\* C2: in the walk of getInheritedConfigs, once the stored entry of a name
\* is 'disable' it is 'disable' after every further class of the walk.
C2_DisableIsTerminal ==
    \A c \in Classes :
        \A k \in 1..(Len(Chain(c)) - 1) :
            LET before == ConfigsAfter(c, k)
                after == ConfigsAfter(c, k + 1)
            IN \A n \in DOMAIN before :
                  before[n].disabled => n \in DOMAIN after /\ after[n].disabled

\* A registered class that disables a feature for which one of its
\* ancestors declares a config or property patch.
C2_Witness ==
    \E c \in registered, n \in FeatureNames :
        /\ DeclaresDisable(c, n)
        /\ \E j \in Positions(c) : j > 1 /\ DeclaresPatch(Chain(c)[j], n)
        /\ getInheritedConfigs(c)[n].disabled

\* C3: when several classes of the chain patch the config of a feature at
\* the same key, the resolved config and the config handed to the module
\* constructor carry, at that key, the value of the class closest to the
\* leaf.
C3_CloserToLeafConfigWins ==
    \A c \in registered, n \in FeatureNames :
        LET ch == Chain(c)
            patchers(p) == {i \in Positions(c) :
                               /\ DeclaresPatch(ch[i], n)
                               /\ p \in DOMAIN features[ch[i]][n].config}
        IN (\A i \in Positions(c) : ~DeclaresDisable(ch[i], n))
           => \A p \in PatchPaths :
                 Cardinality(patchers(p)) >= 2
                 => LET first == CHOOSE i \in patchers(p) :
                                     \A j \in patchers(p) : i <= j
                        v == features[ch[first]][n].config[p]
                    IN /\ getInheritedConfigs(c)[n].config[p] = v
                       /\ \A h \in HostIndexes :
                             hosts[h].constructor = c
                             => \A i \in 1..Len(Instances(h)) :
                                   Instances(h)[i].name = n
                                   => Instances(h)[i].config[p] = v

\* C4: A provides a feature whose module declares p, B marks p 'disable',
\* and C, a child of B, declares no `features` or an override of the same
\* feature that does not mention p; then the schema published for C after
\* prepareFeatures(C) does not contain p.
C4_GrandchildSchemaLacksDisabledProperty ==
    \A n \in FeatureNames :
        (/\ "C" \in registered
         /\ DeclaresProvide("A", n)
         /\ ~DeclaresProvide("B", n) /\ ~DeclaresProvide("C", n)
         /\ ~DeclaresOverride("A", n)
         /\ DeclaresPatch("B", n))
        => \A p \in DOMAIN ModuleProperties(OwnDefinition("A", n).class) :
              (/\ p \in DOMAIN features["B"][n].properties
               /\ features["B"][n].properties[p] = "disable"
               /\ \/ "C" \notin DOMAIN features
                  \/ /\ DeclaresPatch("C", n)
                     /\ p \notin DOMAIN features["C"][n].properties)
              => p \notin DOMAIN properties("C")

\* C5: when a class and one of its ancestors patch the same property of the
\* same feature with different values (descriptors or 'disable'), the
\* property patch resolved for the class is the one the class itself
\* declares.
C5_CloserToLeafPropertyPatchWins ==
    \A c \in registered, n \in FeatureNames :
        (/\ DeclaresPatch(c, n)
         /\ \A i \in Positions(c) : ~DeclaresDisable(Chain(c)[i], n))
        => \A p \in DOMAIN features[c][n].properties :
              (\E j \in Positions(c) :
                  /\ j > 1
                  /\ DeclaresPatch(Chain(c)[j], n)
                  /\ p \in DOMAIN features[Chain(c)[j]][n].properties
                  /\ features[Chain(c)[j]][n].properties[p]
                        # features[c][n].properties[p])
              => /\ p \in DOMAIN getInheritedConfigs(c)[n].properties
                 /\ getInheritedConfigs(c)[n].properties[p]
                       = features[c][n].properties[p]

\* C6: when an ancestor declares 'disable' for a name that a more-derived
\* class of the chain overrides with a config or property patch, the name
\* resolves to 'disable' and hosts of the class get no instance of it.
C6_AncestorDisableWins ==
    \A c \in Classes, n \in FeatureNames :
        (\E i, j \in Positions(c) :
            /\ i < j
            /\ DeclaresPatch(Chain(c)[i], n)
            /\ DeclaresDisable(Chain(c)[j], n))
        => /\ getInheritedConfigs(c)[n].disabled
           /\ \A h \in HostIndexes :
                 hosts[h].constructor = c => n \notin InstanceNames(h)

\* A host of a class that patches an enabled feature which an ancestor
\* disables.
C6_Witness ==
    \E h \in HostIndexes, n \in FeatureNames :
        LET c == hosts[h].constructor
        IN /\ DeclaresPatch(c, n)
           /\ \E j \in Positions(c) : j > 1 /\ DeclaresDisable(Chain(c)[j], n)
           /\ \E i \in 1..Len(getInheritedProvides(c)) :
                 /\ getInheritedProvides(c)[i].name = n
                 /\ getInheritedProvides(c)[i].enabled
           /\ n \notin InstanceNames(h)

\* C7: for a feature overridden by exactly one class of the chain, with a
\* config patch, the config handed to the constructor is the default config
\* overlaid with the patch: patch keys have the patch's value, default keys
\* the patch does not touch keep the default value, and there is no other
\* key.
C7_SinglePatchOverlaysDefaults ==
    \A h \in HostIndexes :
        \A i \in 1..Len(Instances(h)) :
            LET inst == Instances(h)[i]
                c == hosts[h].constructor
                ov == Overriders(c, inst.name)
            IN (/\ Cardinality(ov) = 1
                /\ \A k \in ov : DeclaresPatch(Chain(c)[k], inst.name))
               => LET k == CHOOSE k \in ov : TRUE
                      patch == features[Chain(c)[k]][inst.name].config
                      default ==
                          OwnDefinition(MostDerived(c, inst.name),
                                        inst.name).config
                      untouched == {p \in DOMAIN default :
                                      \A q \in DOMAIN patch : ~Conflicts(p, q)}
                  IN /\ DOMAIN inst.config = DOMAIN patch \cup untouched
                     /\ \A p \in DOMAIN patch : inst.config[p] = patch[p]
                     /\ \A p \in untouched : inst.config[p] = default[p]

\* A host with a feature whose defaults a single class patches at one key,
\* leaving another default key alone.
C7_Witness ==
    \E h \in HostIndexes :
        \E i \in 1..Len(Instances(h)) :
            LET inst == Instances(h)[i]
                c == hosts[h].constructor
                ov == Overriders(c, inst.name)
            IN /\ Cardinality(ov) = 1
               /\ \A k \in ov :
                     /\ DeclaresPatch(Chain(c)[k], inst.name)
                     /\ <<"b">> \in
                           DOMAIN features[Chain(c)[k]][inst.name].config
               /\ inst.config[<<"a">>] > 10
               /\ inst.config[<<"b">>] < 10

\* The only override of feature n in the chain of class c is the one that c
\* declares itself.
OnlyOwnOverride(c, n) == Overriders(c, n) = {1}

\* C8: A provides an enabled feature whose module declares p and B's own
\* override marks p 'disable'; with B the only class registered, the schema
\* published for B lacks p and has every other property of the module.
C8_OwnDisableRemovesProperty ==
    \A n \in FeatureNames :
        (/\ registered = {"B"}
         /\ DeclaresProvide("A", n) /\ ~DeclaresProvide("B", n)
         /\ OwnDefinition("A", n).enabled
         /\ OnlyOwnOverride("B", n)
         /\ DeclaresPatch("B", n))
        => LET declared == DOMAIN ModuleProperties(OwnDefinition("A", n).class)
               patch == features["B"][n].properties
           IN \A p \in declared :
                 (p \in DOMAIN patch /\ patch[p] = "disable")
                 => /\ p \notin DOMAIN properties("B")
                    /\ \A q \in declared \ {p} : q \in DOMAIN properties("B")

\* B, registered alone, disables the property `layout` of the enabled
\* layout feature that A provides.
C8_Witness ==
    /\ registered = {"B"}
    /\ DeclaresProvide("A", "layout") /\ ~DeclaresProvide("B", "layout")
    /\ OwnDefinition("A", "layout").enabled
    /\ OwnDefinition("A", "layout").class = "LayoutFeature"
    /\ OnlyOwnOverride("B", "layout")
    /\ DeclaresPatch("B", "layout")
    /\ "layout" \in DOMAIN features["B"]["layout"].properties
    /\ features["B"]["layout"].properties["layout"] = "disable"
    /\ "shape" \in DOMAIN properties("B")

\* Feature definition d is off for class c: its resolved override is
\* 'disable', or it is provided with enabled = false and has no override.
IsOff(c, d) ==
    \/ d.name \in DOMAIN getInheritedConfigs(c)
          /\ getInheritedConfigs(c)[d.name].disabled
    \/ d.name \notin DOMAIN getInheritedConfigs(c) /\ ~d.enabled

\* C9: a constructed host has no instance of a feature that is off for its
\* class, and no instance at all when every provided feature is off.
C9_NoInstanceOfFeatureThatIsOff ==
    \A h \in HostIndexes :
        LET c == hosts[h].constructor
            provided == getInheritedProvides(c)
        IN /\ \A i \in 1..Len(provided) :
                 IsOff(c, provided[i])
                 => provided[i].name \notin InstanceNames(h)
           /\ (\A i \in 1..Len(provided) : IsOff(c, provided[i]))
              => Instances(h) = <<>>

\* A host without instances whose class has one feature disabled by an
\* override and another provided with enabled = false and not overridden.
C9_Witness ==
    \E h \in HostIndexes :
        LET c == hosts[h].constructor
            provided == getInheritedProvides(c)
            configs == getInheritedConfigs(c)
        IN /\ Instances(h) = <<>>
           /\ \E i \in 1..Len(provided) :
                 /\ provided[i].enabled
                 /\ provided[i].name \in DOMAIN configs
                 /\ configs[provided[i].name].disabled
           /\ \E i \in 1..Len(provided) :
                 /\ ~provided[i].enabled
                 /\ provided[i].name \notin DOMAIN configs

\* Scenario A of the specification: A is Root, B is Mid, C is Leaf.
ScenarioA ==
    /\ DOMAIN provides = {"AuroCore", "A", "B"}
    /\ Len(provides["A"]) = 1 /\ Len(provides["B"]) = 1
    /\ provides["A"][1].name = "layout" /\ provides["A"][1].enabled
    /\ provides["B"][1].name = "focus" /\ ~provides["B"][1].enabled
    /\ DOMAIN features = {"AuroCore", "C"}
    /\ DOMAIN features["C"] = {"focus"}
    /\ ~features["C"]["focus"].disabled

\* C10: in scenario A a host of Leaf has exactly the instances layout and
\* focus, and a host of Mid has exactly layout.
C10_ScenarioA ==
    ScenarioA
    => \A h \in HostIndexes :
          /\ hosts[h].constructor = "C"
             => /\ InstanceNames(h) = {"layout", "focus"}
                /\ Len(Instances(h)) = 2
          /\ hosts[h].constructor = "B"
             => /\ InstanceNames(h) = {"layout"}
                /\ Len(Instances(h)) = 1

\* A Leaf host in scenario A.
C10_Witness ==
    /\ ScenarioA
    /\ \E h \in HostIndexes :
          hosts[h].constructor = "C" /\ Len(Instances(h)) = 2

\* C11: every feature instantiated on a host of a class has the declared
\* properties of its module, except those its resolved property patch
\* disables, in the schema published for the class.
C11_InstantiatedFeaturesArePublished ==
    \A h \in HostIndexes :
        LET c == hosts[h].constructor
            configs == getInheritedConfigs(c)
        IN registered = {c}
           => \A i \in 1..Len(Instances(h)) :
                 LET inst == Instances(h)[i]
                     patch == IF inst.name \in DOMAIN configs
                              THEN configs[inst.name].properties
                              ELSE NoProperties
                 IN \A p \in DOMAIN ModuleProperties(inst.class) :
                       ~(p \in DOMAIN patch /\ patch[p] = "disable")
                       => p \in DOMAIN properties(c)

\* C12: the schema of a registered class is the same after every later
\* registration and host construction.
C12_PublishedSchemaIsImmutable ==
    [][\A c \in registered : properties(c)' = properties(c)]_vars

\* C20: a call of prepareFeatures on a class it has been called on before
\* leaves the feature-property registry and the initialized flag of the
\* class as they were.
C20_PrepareFeaturesIsIdempotent ==
    [][\A c \in Classes :
          (prepareCalls[c] >= 1 /\ prepareCalls'[c] = prepareCalls[c] + 1)
          => /\ FeaturePropertiesOf(c)' = FeaturePropertiesOf(c)
             /\ FeaturesInitialized(c)' = FeaturesInitialized(c)]_vars

C20_Witness ==
    \E c \in Classes :
        /\ prepareCalls[c] = 2
        /\ c \in featuresInitialized
        /\ FeaturePropertiesOf(c) # NoProperties

----------------------------------------------------------------------------
\* Vocabulary of the lifecycle claims.

Handlers == {"connectedCallback", "disconnectedCallback", "firstUpdated",
             "updated", "attributeChangedCallback"}

BeforeHook(handler) ==
    CASE handler = "connectedCallback" -> "beforeConnectedCallback"
      [] handler = "disconnectedCallback" -> "beforeDisconnectedCallback"
      [] handler = "firstUpdated" -> "beforeFirstUpdated"
      [] handler = "updated" -> "beforeUpdated"
      [] OTHER -> "beforeAttributeChangedCallback"

AfterHook(handler) ==
    CASE handler = "connectedCallback" -> "afterConnectedCallback"
      [] handler = "disconnectedCallback" -> "afterDisconnectedCallback"
      [] handler = "firstUpdated" -> "afterFirstUpdated"
      [] handler = "updated" -> "afterUpdated"
      [] OTHER -> "afterAttributeChangedCallback"

\* What the last handler call did, statement by statement.
Executed == [i \in 1..Len(calls.trace) |->
                [op |-> calls.trace[i].op, method |-> calls.trace[i].method]]

\* before-hooks, host's own handling, event-named hooks, after-hooks.
SuperSecond(handler) ==
    <<[op |-> "processLifecycle", method |-> BeforeHook(handler)],
      [op |-> "super", method |-> handler],
      [op |-> "processLifecycle", method |-> handler],
      [op |-> "processLifecycle", method |-> AfterHook(handler)]>>

\* before-hooks, event-named hooks, host's own handling, after-hooks.
SuperThird(handler) ==
    <<[op |-> "processLifecycle", method |-> BeforeHook(handler)],
      [op |-> "processLifecycle", method |-> handler],
      [op |-> "super", method |-> handler],
      [op |-> "processLifecycle", method |-> AfterHook(handler)]>>

Names(seq) == [i \in 1..Len(seq) |-> seq[i].name]

\* The names of the instances that have the method, in the order of
\* _featureInstances.
Responding(instances, methodName) ==
    Names(SelectSeq(instances,
                    LAMBDA f : methodName \in ModuleMethods(f.class)))

\* C13 as stated: for each of the five handlers, what a call executes is,
\* up to an exception, the before-hooks, then the host's own handling, then
\* the event-named hooks, then the after-hooks.
C13_SuperBeforeEventHooks ==
    calls.handler \in Handlers
    => /\ IsPrefix(Executed, SuperSecond(calls.handler))
       /\ calls.trace[Len(calls.trace)].threw \/ Len(calls.trace) = 4

\* C13 amended: that order holds for connectedCallback, firstUpdated,
\* updated and attributeChangedCallback; disconnectedCallback runs the
\* before-hooks, then the event-named hooks, then the host's own handling,
\* then the after-hooks.
C13_HandlerOrder ==
    calls.handler \in Handlers
    => /\ IsPrefix(Executed,
                   IF calls.handler = "disconnectedCallback"
                   THEN SuperThird(calls.handler)
                   ELSE SuperSecond(calls.handler))
       /\ calls.trace[Len(calls.trace)].threw \/ Len(calls.trace) = 4

C13_Witness ==
    /\ calls.handler = "disconnectedCallback"
    /\ Len(calls.trace) = 4
    /\ calls.trace[2].invoked = <<"logger">>
    /\ calls.trace[3].op = "super"

\* C14: _featureInstances holds the instances in the order in which
\* getInheritedProvides first resolved their features, and a
\* processLifecycle that ends without an exception has invoked the hook of
\* exactly the instances that have the method, in that order, each once.
C14_DispatchInResolutionOrder ==
    calls.handler \in Handlers
    => LET h == calls.host
           resolved == getInheritedProvides(hosts[h].constructor)
       IN /\ Names(Instances(h)) =
                Names(SelectSeq(resolved,
                                LAMBDA d : d.name \in InstanceNames(h)))
          /\ \A i \in 1..Len(calls.trace) :
                LET e == calls.trace[i]
                IN (e.op = "processLifecycle" /\ ~e.threw)
                   => /\ e.invoked = Responding(Instances(h), e.method)
                      /\ \A j, k \in 1..Len(e.invoked) :
                            e.invoked[j] = e.invoked[k] => j = k

\* A hook-less instance stands before one whose hook was invoked.
C14_Witness ==
    /\ calls.handler = "connectedCallback"
    /\ Len(calls.trace) = 4
    /\ calls.trace[3].invoked = <<"logger">>
    /\ Len(Instances(calls.host)) >= 2
    /\ Instances(calls.host)[1].class # "LifecycleLoggerFeature"
    /\ Instances(calls.host)[Len(Instances(calls.host))].name = "logger"

\* The last handler call ended with the exception of a hook.
Threw == calls.trace # <<>> /\ calls.trace[Len(calls.trace)].threw

\* C15: the exception of a hook ends the handler call, the throwing hook
\* being the last one invoked; the call leaves the instances of every host
\* as they were; and the next handler call in which no other hook throws
\* invokes the hook of the module that threw, when it has the method.
C15_HookExceptionEndsDispatch ==
    [][calls' # calls
       => /\ hosts' = hosts
          /\ \A i \in 1..Len(calls'.trace) :
                LET e == calls'.trace[i]
                IN e.threw
                   => /\ i = Len(calls'.trace)
                      /\ e.invoked # <<>>
                      /\ e.invoked[Len(e.invoked)] = calls'.thrower
                      /\ IsPrefix(e.invoked,
                                  Responding(hosts[calls'.host]
                                                 ._featureInstances,
                                             e.method))
          /\ (Threw /\ calls'.host = calls.host
                    /\ calls'.thrower \in {"none", calls.thrower})
             => \A i \in 1..Len(calls'.trace) :
                   LET e == calls'.trace[i]
                   IN (/\ e.op = "processLifecycle"
                       /\ calls.thrower \in
                             {Responding(Instances(calls.host), e.method)[j] :
                                j \in 1..Len(Responding(Instances(calls.host),
                                                        e.method))})
                      => \E j \in 1..Len(e.invoked) :
                            e.invoked[j] = calls.thrower
      ]_vars

\* The hook of the first instance threw in firstUpdated, which every
\* instance responds to.
C15_Witness ==
    /\ Threw
    /\ calls.handler = "firstUpdated"
    /\ Len(Instances(calls.host)) >= 2
    /\ calls.thrower = Instances(calls.host)[1].name
    /\ calls.trace[Len(calls.trace)].invoked = <<calls.thrower>>

\* C16: a host construction in which a feature constructor throws yields no
\* element; when the exception leaves _initializeFeatures, _featureInstances
\* holds no entry of the throwing feature and none of a feature resolved
\* after it, and holds the instance of every feature resolved before it
\* that is not off.  A host that was constructed has every feature that is
\* not off.
C16_ConstructorExceptionEndsComposition ==
    /\ \A a \in 1..Len(aborted) :
          LET c == aborted[a].constructor
              resolved == getInheritedProvides(c)
              t == CHOOSE i \in 1..Len(resolved) :
                       resolved[i].name = aborted[a].error
          IN /\ \E i \in 1..Len(resolved) :
                   resolved[i].name = aborted[a].error
             /\ resolved[t].class \in throwing
             /\ Names(aborted[a]._featureInstances) =
                   Names(SelectSeq(SubSeq(resolved, 1, t - 1),
                                   LAMBDA d : ~IsOff(c, d)))
    /\ \A h \in HostIndexes :
          LET c == hosts[h].constructor
          IN Names(Instances(h)) =
                Names(SelectSeq(getInheritedProvides(c),
                                LAMBDA d : ~IsOff(c, d)))

\* The constructor threw after an instance had been stored and before a
\* feature that is not off.
C16_Witness ==
    \E a \in 1..Len(aborted) :
        LET c == aborted[a].constructor
            resolved == getInheritedProvides(c)
        IN /\ Len(aborted[a]._featureInstances) >= 1
           /\ \E i, j \in 1..Len(resolved) :
                 /\ resolved[i].name = aborted[a].error
                 /\ i < j
                 /\ ~IsOff(c, resolved[j])

\* Features i < j resolved for class c, both enabled and not overridden,
\* whose different modules both declare property p.
Collision(c, i, j, p) ==
    LET resolved == getInheritedProvides(c)
    IN /\ i < j
       /\ resolved[i].enabled /\ resolved[j].enabled
       /\ resolved[i].name \notin DOMAIN getInheritedConfigs(c)
       /\ resolved[j].name \notin DOMAIN getInheritedConfigs(c)
       /\ resolved[i].class # resolved[j].class
       /\ p \in DOMAIN ModuleProperties(resolved[i].class)
       /\ p \in DOMAIN ModuleProperties(resolved[j].class)

\* C17: when two different enabled modules of a class contribute a property
\* of the same name, the registration of the class does not complete, and
\* the registry of a class prepared alone holds the descriptor of the module
\* processed first.
C17_CollisionIsReported ==
    \A c \in Classes :
        \A i, j \in 1..Len(getInheritedProvides(c)) :
            \A p \in {"layout", "shape", "size", "onDark"} :
                (Collision(c, i, j, p) /\ featuresInitialized = {c})
                => /\ c \notin registered
                   /\ FeaturePropertiesOf(c)[p] =
                         ModuleProperties(getInheritedProvides(c)[i].class)[p]

\* The names that class c overrides and none of its classes provides.
Unprovided(c) ==
    {n \in DOMAIN getInheritedConfigs(c) :
        ~HasName(getInheritedProvides(c), n)}

\* The resolved overrides of class c without those of unprovided names.
ProvidedConfigs(c) ==
    [n \in DOMAIN getInheritedConfigs(c) \ Unprovided(c) |->
        getInheritedConfigs(c)[n]]

\* C18: when a class overrides a name that none of its classes provides,
\* the schema published for the class and the instances of its hosts are
\* those that result without the override, and no instance carries the
\* name.
C18_UnprovidedOverrideIsNoOp ==
    \A c \in Classes :
        Unprovided(c) # {}
        => /\ featuresInitialized = {c}
              => FeaturePropertiesOf(c) =
                    collectFeatures(NoProperties, getInheritedProvides(c),
                                    ProvidedConfigs(c))
           /\ \A h \in HostIndexes :
                 hosts[h].constructor = c
                 => /\ Instances(h) =
                          initializeFeatures(<<>>, getInheritedProvides(c),
                                             ProvidedConfigs(c))
                    /\ InstanceNames(h) \cap Unprovided(c) = {}

\* A host with an instance, of a class that was registered alone and
\* overrides an unprovided name without disabling it.
C18_Witness ==
    \E h \in HostIndexes :
        LET c == hosts[h].constructor
        IN /\ featuresInitialized = {c}
           /\ \E n \in Unprovided(c) : ~getInheritedConfigs(c)[n].disabled
           /\ Instances(h) # <<>>
           /\ FeaturePropertiesOf(c) # NoProperties

\* A class of the chain of c declares property p in its own `properties`.
HostDeclared(c, p) ==
    \E i \in Positions(c) :
        /\ Chain(c)[i] \in DOMAIN ownProperties
        /\ p \in DOMAIN ownProperties[Chain(c)[i]].properties

C21_PreparedBeforeFirstHost ==
    /\ \A h \in HostIndexes :
          /\ prepareCalls[hosts[h].constructor] >= 1
          /\ FeaturesInitialized(hosts[h].constructor)
    /\ \A a \in 1..Len(aborted) :
          /\ prepareCalls[aborted[a].constructor] >= 1
          /\ FeaturesInitialized(aborted[a].constructor)
    /\ \A c \in registered : prepareCalls[c] >= 1

\* A host of a class whose registration collected properties.
C21_Witness ==
    \E h \in HostIndexes :
        /\ hosts[h].constructor \in featuresInitialized
        /\ prepareCalls[hosts[h].constructor] = 1
        /\ FeaturePropertiesOf(hosts[h].constructor) # NoProperties
        /\ Instances(h) # <<>>

\* C22: a class that declares no `features` of its own resolves to the
\* override map of its parent class.
C22_UndeclaredFeaturesResolveAsParent ==
    \A c \in Classes :
        (c \notin DOMAIN features /\ ParentOf[c] \in Classes)
        => getInheritedConfigs(c) = getInheritedConfigs(ParentOf[c])

\* Property p is contributed to class c by a feature that the chain of c
\* provides and that is enabled for c: declared by its module, or added by
\* the resolved property patch of the feature.
Contributed(c, p) ==
    LET resolved == getInheritedProvides(c)
        configs == getInheritedConfigs(c)
    IN \E i \in 1..Len(resolved) :
          /\ ~IsOff(c, resolved[i])
          /\ \/ p \in DOMAIN ModuleProperties(resolved[i].class)
             \/ /\ resolved[i].name \in DOMAIN configs
                /\ p \in DOMAIN configs[resolved[i].name].properties

\* C23: every property of the schema of a registered class is declared by
\* a class of its chain or contributed by a feature provided and enabled
\* in its chain.
C23_SchemaHoldsOwnChainOnly ==
    \A c \in registered :
        \A p \in DOMAIN properties(c) :
            HostDeclared(c, p) \/ Contributed(c, p)

\* C24: the first call of prepareFeatures on a class leaves every property
\* that the modules of its enabled, unpatched features declare in the
\* registry of the class.
C24_FirstCallCollects ==
    [][\A c \in Classes :
          (prepareCalls[c] = 0 /\ prepareCalls'[c] = 1)
          => \A i \in 1..Len(getInheritedProvides(c)) :
                LET d == getInheritedProvides(c)[i]
                IN (d.enabled /\ d.name \notin DOMAIN getInheritedConfigs(c))
                   => \A p \in DOMAIN ModuleProperties(d.class) :
                         p \in DOMAIN FeaturePropertiesOf(c)'
      ]_vars

\* C25: on a host, a feature provided with enabled = false has an instance
\* exactly when the resolved override map of the class holds an entry for
\* its name that is not 'disable'.
C25_OffByDefaultNeedsOverride ==
    \A h \in HostIndexes :
        LET c == hosts[h].constructor
            resolved == getInheritedProvides(c)
            configs == getInheritedConfigs(c)
        IN \A i \in 1..Len(resolved) :
              ~resolved[i].enabled
              => (resolved[i].name \in InstanceNames(h)
                  <=> /\ resolved[i].name \in DOMAIN configs
                      /\ ~configs[resolved[i].name].disabled)

\* A host of the leaf class has the feature by an empty override that only
\* an ancestor declares.
C25_Witness ==
    \E h \in HostIndexes :
        LET c == hosts[h].constructor
            resolved == getInheritedProvides(c)
            configs == getInheritedConfigs(c)
        IN /\ c = "C"
           /\ c \notin DOMAIN features
           /\ Len(resolved) = 1
           /\ ~resolved[1].enabled
           /\ resolved[1].name \in InstanceNames(h)
           /\ configs[resolved[1].name].config = EmptyObject
           /\ configs[resolved[1].name].properties = NoProperties

\* ---------------------------------------------------------------------
\* Properties of the modules mirrored on the host
\* ---------------------------------------------------------------------

\* The static properties of a module that hold one value; `layoutClasses`
\* holds an object.
Scalars(FeatureClass) ==
    DOMAIN ModuleProperties(FeatureClass) \ {"layoutClasses"}

\* C26: when the instance of a module assigns v to a property p of the
\* static properties of the module, the host field p holds v afterwards and
\* reading p on the instance gives v; this is so for each write of a
\* sequence, so the last value written is on both sides.
C26_ModuleWriteIsMirrored ==
    [][\A h \in 1..Len(hosts) :
          \A i \in 1..Len(hosts[h]._featureInstances) :
             LET feature == hosts[h]._featureInstances[i]
             IN \A p \in Scalars(feature.class), v \in Values :
                   moduleWrite(h, i, p, v)
                   => /\ Get(fields'[h], p) = v
                      /\ Get(internalValues'[h][feature.name], p) = v
      ]_vars

\* Two writes of the layout module, the second of another value than the
\* first could have left, and no write of the page: the value is on both
\* sides.
C26_Witness ==
    \E h \in 1..Len(hosts) :
        /\ writes = 2
        /\ "layout" \in DOMAIN internalValues[h]
        /\ internalValues[h]["layout"]["layout"] = "v2"
        /\ fields[h]["layout"] = "v2"
        /\ fields[h]["shape"] = "pill"

\* The declared properties the `updated` hook of a module assigns itself,
\* apart from the copies of AuroFeature.updated: LayoutFeature computes
\* `layoutClasses` anew when layout, shape or size has changed.
Recomputed(FeatureClass, changed) ==
    IF FeatureClass = "LayoutFeature"
       /\ changed \cap {"layout", "shape", "size"} # {}
    THEN {"layoutClasses"} ELSE {}

\* C27 as stated: after `updated` is dispatched on a host with p in
\* changedProperties, the internal value of p of every module that declares
\* p is the value of the host field, and the internal value of every
\* declared property that is not in changedProperties is what it was
\* before the dispatch.
C27_UpdatedTouchesChangedOnly ==
    [][\A h \in 1..Len(hosts), changed \in ChangedSets :
          handle(h, "updated", updatedStatements, "none", changed)
          => \A i \in 1..Len(hosts[h]._featureInstances) :
                LET feature == hosts[h]._featureInstances[i]
                IN \A p \in DOMAIN ModuleProperties(feature.class) :
                      IF p \in changed
                      THEN internalValues'[h][feature.name][p]
                              = fields'[h][p]
                      ELSE internalValues'[h][feature.name][p]
                              = internalValues[h][feature.name][p]
      ]_vars

\* C27: after `updated` is dispatched on a host with p in changedProperties,
\* the internal value of p of every module that declares p is the value of
\* the host field; the internal value of a declared property that is not
\* in changedProperties is what it was before the dispatch, unless the
\* hook of the module computes it: the layout module then holds the
\* classes of its new layout.
C27_UpdatedCopiesChanged ==
    [][\A h \in 1..Len(hosts), changed \in ChangedSets :
          handle(h, "updated", updatedStatements, "none", changed)
          => \A i \in 1..Len(hosts[h]._featureInstances) :
                LET feature == hosts[h]._featureInstances[i]
                    before == internalValues[h][feature.name]
                    after == internalValues'[h][feature.name]
                IN /\ \A p \in DOMAIN ModuleProperties(feature.class) :
                         IF p \in changed
                         THEN after[p] = fields'[h][p]
                         ELSE p \notin Recomputed(feature.class, changed)
                              => after[p] = before[p]
                   /\ "layoutClasses" \in Recomputed(feature.class, changed)
                      => after["layoutClasses"].layout
                            = "layout-" \o toLowerCase(after["layout"])
      ]_vars

\* The page has assigned layout and shape, and `updated` has been
\* dispatched with layout alone in changedProperties: the layout module
\* holds the layout of the host and its classes, and its former shape.
C27_Witness ==
    \E h \in 1..Len(hosts) :
        /\ calls.host = h
        /\ calls.handler = "updated"
        /\ "layout" \in calls.changed
        /\ "layout" \in DOMAIN internalValues[h]
        /\ fields[h]["layout"] = "Page"
        /\ internalValues[h]["layout"]["layout"] = "Page"
        /\ internalValues[h]["layout"]["layoutClasses"].layout = "layout-page"
        /\ fields[h]["shape"] = "Page"
        /\ internalValues[h]["layout"]["shape"] = "pill"

\* The resolved override of class c for the feature deletes property p
\* from what the class publishes for it.
PatchedOut(c, name, p) ==
    LET configs == getInheritedConfigs(c)
    IN /\ name \in DOMAIN configs
       /\ ~configs[name].disabled
       /\ Get(configs[name].properties, p) = "disable"

\* C28: on a host of a class whose override disables property p of a
\* feature, the instance of the feature still holds p, and when it assigns
\* a value to p the host field p holds the value afterwards.
C28_DisabledPropertyIsStillMirrored ==
    [][\A h \in 1..Len(hosts') :
          \A i \in 1..Len(hosts'[h]._featureInstances) :
             LET feature == hosts'[h]._featureInstances[i]
             IN \A p \in Scalars(feature.class) :
                   PatchedOut(hosts'[h].constructor, feature.name, p)
                   => /\ p \in DOMAIN internalValues'[h][feature.name]
                      /\ \A v \in Values :
                            (h <= Len(hosts) /\ moduleWrite(h, i, p, v))
                            => fields'[h][p] = v
      ]_vars

\* B disables `layout` and does not publish it; the layout module of a
\* host of B has assigned it, and the host holds the value.
C28_Witness ==
    \E h \in 1..Len(hosts) :
        /\ hosts[h].constructor = "B"
        /\ PatchedOut("B", "layout", "layout")
        /\ "layout" \notin DOMAIN properties("B")
        /\ "shape" \in DOMAIN properties("B")
        /\ writes = 1
        /\ fields[h]["layout"] = "v1"
        /\ internalValues[h]["layout"]["layout"] = "v1"

\* The host has been composed and nothing has acted on it since.
Fresh == writes = 0 /\ calls.handler = "none"

\* The instance of feature j assigns host field p while it is composed: in
\* its constructor body or from its `properties` map.
Assigns(feature, p) ==
    \/ \E k \in 1..Len(ConstructorWrites(feature.class)) :
           ConstructorWrites(feature.class)[k][1] = p
    \/ /\ p \in DOMAIN InstanceProperties(feature.class)
       /\ InstanceProperties(feature.class)[p] # <<>>

\* C29: of the `properties` map of an instantiated module, an entry that
\* has a `value` is written to the host field of its name once the module
\* is constructed and stored, so the host holds the value unless a module
\* composed later assigns the field; an entry without `value` is not
\* written: the host has no such field unless a module assigns it.
C29_InstancePropertiesSeedHost ==
    \A h \in 1..Len(hosts) :
        Fresh
        => \A i \in 1..Len(hosts[h]._featureInstances) :
              LET instances == hosts[h]._featureInstances
                  entries == InstanceProperties(instances[i].class)
              IN \A p \in DOMAIN entries :
                    IF entries[p] # <<>>
                    THEN (\A j \in (i + 1)..Len(instances) :
                             ~Assigns(instances[j], p))
                         => Get(fields[h], p) = entries[p][1]
                    ELSE (\A j \in 1..Len(instances) :
                             ~Assigns(instances[j], p))
                         => p \notin DOMAIN fields[h]

\* The seeding module is composed after the layout module: the host holds
\* its two values, one of them over the layout the layout module assigned
\* and still holds, and has no field for the entry without `value`.
C29_Witness ==
    \E h \in 1..Len(hosts) :
        /\ Fresh
        /\ Len(hosts[h]._featureInstances) = 2
        /\ hosts[h]._featureInstances[2].class = "SeedFeature"
        /\ fields[h]["seeded"] = "seed"
        /\ fields[h]["layout"] = "seed"
        /\ internalValues[h]["layout"]["layout"] = "classic"
        /\ "plain" \notin DOMAIN fields[h]

\* ---------------------------------------------------------------------
\* The resolution functions as reads
\* ---------------------------------------------------------------------

\* The classes of a walk lead from class c upwards, each the parent of the
\* one before, and end below 'LitElement'.
LeafToRoot(visited, c) ==
    /\ Len(visited) >= 1
    /\ visited[1] = c
    /\ \A k \in 1..(Len(visited) - 1) : visited[k + 1] = ParentOf[visited[k]]
    /\ \A k \in 1..Len(visited) : visited[k] # "LitElement"
    /\ ParentOf[visited[Len(visited)]] = "LitElement"

====
